---- MODULE Spec2Model ----
(***************************************************************************)
(* A model of markdown_table.py: the GenerateMarkdownTableCommand flow     *)
(* (delimiter choice, parsing, row normalization, the per-column           *)
(* alignment prompts) and InsertMarkdownTableCommand (the table renderer   *)
(* and the document edit).                                                 *)
(*                                                                         *)
(* A Python str is a sequence of one-character strings, so that len,       *)
(* slicing, padding and joining are computed and not assumed.  A Python    *)
(* list is a sequence; index i of the code is index i+1 here.              *)
(***************************************************************************)
EXTENDS Integers, Sequences, FiniteSets, TLC

\* ------------------------------------------------------------------ bounds

\* Longest run of "a" in a cell handed directly to insert_markdown_table.
MaxCellLen == 3
\* Most columns / data rows of a table handed directly to insert_markdown_table.
MaxCols == 2
MaxRows == 1
\* Largest document offset at which a selection begins.
MaxBegin == 1

\* ----------------------------------------------------------------- strings

Rep(c, n) == [k \in 1..n |-> c]

Range(s) == {s[k] : k \in 1..Len(s)}

\* All sequences over S of length at most n.
SeqUpTo(S, n) == UNION {[1..k -> S] : k \in 0..n}

\* str.ljust(w), str.rjust(w): pad with spaces, never truncate.
ljust(cell, w) ==
    IF w <= Len(cell) THEN cell ELSE cell \o Rep(" ", w - Len(cell))

rjust(cell, w) ==
    IF w <= Len(cell) THEN cell ELSE Rep(" ", w - Len(cell)) \o cell

\* center with a slip: the odd space always on the right.
center_extra_right(cell, w) ==
    IF w <= Len(cell) THEN cell
    ELSE LET marg == w - Len(cell)
             left == marg \div 2
         IN  Rep(" ", left) \o cell \o Rep(" ", marg - left)

\* str.center(w) as CPython computes it:
\*   marg = w - len;  left = marg/2 + (marg & w & 1);  right = marg - left.
center(cell, w) ==
    IF w <= Len(cell) THEN cell
    ELSE LET marg == w - Len(cell)
             left == (marg \div 2) + (IF marg % 2 = 1 /\ w % 2 = 1 THEN 1 ELSE 0)
         IN  Rep(" ", left) \o cell \o Rep(" ", marg - left)

\* sep.join(parts)
RECURSIVE join(_, _)
join(sep, parts) ==
    IF parts = <<>> THEN <<>>
    ELSE IF Len(parts) = 1 THEN parts[1]
    ELSE parts[1] \o sep \o join(sep, Tail(parts))

\* ------------------------------------------- generate_markdown_table

\* r[i] if i < len(r) else ""
CellAt(row, i) == IF i <= Len(row) THEN row[i] ELSE <<>>

\* aligns[i] if i < len(aligns) else "left"
AlignAt(als, i) == IF i <= Len(als) THEN als[i] ELSE "left"

\* col_widths_loop with a slip: the width is the last cell's, not the maximum.
RECURSIVE col_widths_last(_, _, _)
col_widths_last(widths, rs, col_count) ==
    IF rs = <<>> THEN widths
    ELSE col_widths_last(
             [i \in 1..col_count |-> Len(CellAt(Head(rs), i))],
             Tail(rs), col_count)

\* for r in rows: for i in range(col_count): widen col_widths[i] to len(cell)
RECURSIVE col_widths_loop(_, _, _)
col_widths_loop(widths, rs, col_count) ==
    IF rs = <<>> THEN widths
    ELSE col_widths_loop(
             [i \in 1..col_count |->
                 IF Len(CellAt(Head(rs), i)) > widths[i]
                 THEN Len(CellAt(Head(rs), i)) ELSE widths[i]],
             Tail(rs), col_count)

compute_col_widths(hs, rs) ==
    col_widths_loop([i \in 1..Len(hs) |-> Len(hs[i])], rs, Len(hs))

\* format_row with a slip: no leading "| " (and every cell left-justified).
format_row_bare(row, als, widths) ==
    join(<<" ", "|", " ">>,
         [i \in 1..Len(widths) |-> ljust(CellAt(row, i), widths[i])])
    \o <<" ", "|">>

format_row(row, als, widths) ==
    LET parts == [i \in 1..Len(widths) |->
                    LET cell  == CellAt(row, i)
                        align == AlignAt(als, i)
                        w     == widths[i]
                    IN  IF align = "right" THEN rjust(cell, w)
                        ELSE IF align = "center" THEN center(cell, w)
                        ELSE ljust(cell, w)]
    IN  <<"|", " ">> \o join(<<" ", "|", " ">>, parts) \o <<" ", "|">>

\* align_pattern with a slip: width 1 is not special-cased for right.
align_pattern_plain(align, w0) ==
    LET w == IF w0 < 1 THEN 1 ELSE w0
    IN  IF align = "right" THEN Rep("-", w - 1) \o <<":">>
        ELSE IF align = "center"
             THEN IF w <= 2 THEN <<":", "-", ":">>
                  ELSE <<":">> \o Rep("-", w - 2) \o <<":">>
        ELSE <<":">> \o Rep("-", w - 1)

align_pattern(align, w0) ==
    LET w == IF w0 < 1 THEN 1 ELSE w0
    IN  IF align = "right"
        THEN IF w = 1 THEN <<"-", ":">> ELSE Rep("-", w - 1) \o <<":">>
        ELSE IF align = "center"
             THEN IF w <= 2 THEN <<":", "-", ":">>
                  ELSE <<":">> \o Rep("-", w - 2) \o <<":">>
        ELSE IF w = 1 THEN <<":">> ELSE <<":">> \o Rep("-", w - 1)

\* build_table_lines with a slip: the data rows come before the alignment row.
build_table_lines_rows_first(hs, rs, als) ==
    LET widths == compute_col_widths(hs, rs)
    IN  <<format_row(hs, als, widths)>>
        \o [k \in 1..Len(rs) |-> format_row(rs[k], als, widths)]
        \o <<(<<"|", " ">>
              \o join(<<" ", "|", " ">>,
                      [i \in 1..Len(hs) |-> align_pattern(AlignAt(als, i), widths[i])])
              \o <<" ", "|">>)>>

\* table_lines: the header row, the alignment row, then one line per data row.
build_table_lines(hs, rs, als) ==
    LET widths == compute_col_widths(hs, rs)
        align_row_cells ==
            [i \in 1..Len(hs) |-> align_pattern(AlignAt(als, i), widths[i])]
    IN  <<format_row(hs, als, widths)>>
        \o <<(<<"|", " ">> \o join(<<" ", "|", " ">>, align_row_cells) \o <<" ", "|">>)>>
        \o [k \in 1..Len(rs) |-> format_row(rs[k], als, widths)]

\* return "\n".join(table_lines) + "\n"
generate_markdown_table(hs, rs, als) ==
    join(<<"\n">>, build_table_lines(hs, rs, als)) \o <<"\n">>

\* ------------------------------------------------ InsertMarkdownTableCommand

VARIABLES
    \* GenerateMarkdownTableCommand: the fields run() leaves on the instance
    headers, rows, aligns, region_begin, region_end,
    \* run()'s locals: the stripped selection, what csv.Sniffer answered, the
    \* delimiter handed to csv.reader, self.rows before normalization
    selected_text, sniffed, delimiter, parsed_rows,
    \* the quick panels whose on_done has not been called yet, oldest first:
    \* [index |-> the closure's index, stale |-> a later run() has started]
    pending,
    \* history: run() calls so far; the column index of every panel shown and
    \* every choice received since the last run(); for each column who wrote
    \* aligns[i]; whether an on_done indexed aligns out of range (IndexError)
    runs, prompts, choices, aligns_by, index_error,
    \* InsertMarkdownTableCommand: an invocation not yet run (or NoCall), the
    \* arguments of the last invocation run, generate_markdown_table's
    \* table_lines and result, who wrote each align handed over, and the
    \* edits made to the document, oldest first
    call, ins, table_lines, table, ins_by, edits

gen_vars == <<headers, rows, aligns, region_begin, region_end,
              selected_text, sniffed, delimiter, parsed_rows>>
flow_vars == <<pending, runs, prompts, choices, aligns_by, index_error>>
ins_vars == <<ins, table_lines, table, ins_by, edits>>
vars == <<gen_vars, flow_vars, call, ins_vars>>

NoCall == [none |-> TRUE]

Args(hs, rs, als, rb, re) ==
    [headers |-> hs, rows |-> rs, aligns |-> als,
     region_begin |-> rb, region_end |-> re]

\* InsertMarkdownTableCommand.run: render, then insert at an empty region or
\* replace a non-empty one.
InsertRun(a, by) ==
    LET t == generate_markdown_table(a.headers, a.rows, a.aligns)
    IN  /\ ins' = a
        /\ ins_by' = by
        /\ table_lines' = build_table_lines(a.headers, a.rows, a.aligns)
        /\ table' = t
        /\ edits' = Append(edits,
                       IF a.region_begin = a.region_end
                       THEN [op |-> "insert", begin |-> a.region_begin,
                             end |-> a.region_begin, text |-> t]
                       ELSE [op |-> "replace", begin |-> a.region_begin,
                             end |-> a.region_end, text |-> t])

\* insert_markdown_table run on its own, with the arguments its caller chose.
InsertDirect ==
    /\ call # NoCall
    /\ InsertRun(call, [i \in 1..Len(call.aligns) |-> "caller"])
    /\ call' = NoCall
    /\ UNCHANGED <<gen_vars, flow_vars>>

\* ---------------------------------------------- GenerateMarkdownTableCommand

\* The characters str.strip() removes, among those of the model's texts.
Whitespace == {"\t", "\n"}

RECURSIVE lstrip(_)
lstrip(s) ==
    IF s # <<>> /\ Head(s) \in Whitespace THEN lstrip(Tail(s)) ELSE s

RECURSIVE rstrip(_)
rstrip(s) ==
    IF s # <<>> /\ s[Len(s)] \in Whitespace
    THEN rstrip(SubSeq(s, 1, Len(s) - 1)) ELSE s

strip(s) == rstrip(lstrip(s))

\* The pieces of s between occurrences of the character d (str.split(d)).
RECURSIVE split(_, _)
split(s, d) ==
    IF d \notin Range(s) THEN <<s>>
    ELSE LET k == CHOOSE j \in 1..Len(s) :
                      s[j] = d /\ \A m \in 1..(j - 1) : s[m] # d
         IN  <<SubSeq(s, 1, k - 1)>> \o split(SubSeq(s, k + 1, Len(s)), d)

\* str.splitlines(): no line for the empty string, none after a final break.
splitlines(s) ==
    IF s = <<>> THEN <<>>
    ELSE LET pieces == split(s, "\n")
         IN  IF pieces[Len(pieces)] = <<>>
             THEN SubSeq(pieces, 1, Len(pieces) - 1) ELSE pieces

\* "\n".join(lines[:3]) if len(lines) > 0 else selected_text
sniff_sample(text) ==
    LET lines == splitlines(text)
    IN  IF Len(lines) > 0
        THEN join(<<"\n">>, SubSeq(lines, 1, IF Len(lines) < 3 THEN Len(lines) ELSE 3))
        ELSE text

\* csv.Sniffer().sniff(sample): the library either raises csv.Error or
\* answers with a character of the sample other than a line break.
SniffOutcomes(sample) == {"Error"} \cup (Range(sample) \ {"\n"})

\* for d in cands: if d in header_line: return d;  none found: ","
RECURSIVE fallback_from(_, _)
fallback_from(cands, header_line) ==
    IF cands = <<>> THEN ","
    ELSE IF Head(cands) \in Range(header_line) THEN Head(cands)
    ELSE fallback_from(Tail(cands), header_line)

\* fallback_delimiter with a slip: the candidates are tried in another order.
fallback_delimiter_reordered(text) ==
    LET lines == splitlines(text)
    IN  fallback_from(<<"|", ";", "\t", ",">>,
                      IF lines # <<>> THEN lines[1] ELSE text)

\* except Exception: the first of , \t ; | found in the header line, else ","
fallback_delimiter(text) ==
    LET lines == splitlines(text)
    IN  fallback_from(<<",", "\t", ";", "|">>,
                      IF lines # <<>> THEN lines[1] ELSE text)

\* list(csv.reader(io.StringIO(text), delimiter=d)) for text without quote
\* characters: one record per line, none of whose fields holds d; an empty
\* line is the record [].
csv_reader(text, d) ==
    LET lines == splitlines(text)
    IN  [k \in 1..Len(lines) |->
            IF lines[k] = <<>> THEN <<>> ELSE split(lines[k], d)]

\* normalize_row with a slip: an if/else where the code loops, so a row that
\* is not too long gets exactly one more cell.
normalize_row_pad_once(r, col_count) ==
    IF Len(r) > col_count THEN SubSeq(r, 1, col_count) ELSE Append(r, <<>>)

\* normalize_row with a slip: pads, never truncates.
RECURSIVE normalize_row_pad_only(_, _)
normalize_row_pad_only(r, col_count) ==
    IF Len(r) < col_count THEN normalize_row_pad_only(Append(r, <<>>), col_count)
    ELSE r

\* while len(row_copy) < col_count: append("");  then row_copy[:col_count]
RECURSIVE normalize_row(_, _)
normalize_row(r, col_count) ==
    IF Len(r) < col_count THEN normalize_row(Append(r, <<>>), col_count)
    ELSE IF Len(r) > col_count THEN SubSeq(r, 1, col_count)
    ELSE r

normalize_rows(hs, rs) ==
    [k \in 1..Len(rs) |-> normalize_row(rs[k], Len(hs))]

DefaultHeaders ==
    << <<"N","a","m","e">>, <<"A","g","e">>, <<"C","o","u","n","t","r","y">> >>

DefaultRows ==
    << << <<"A","l","i","c","e">>, <<"2","5">>, <<"U","S","A">> >>,
       << <<"B","o","b">>, <<"3","0">>, <<"U","K">> >>,
       << <<"C","h","a","r","l","i","e">>, <<"3","5">>, <<"C","a","n","a","d","a">> >> >>

\* ask_alignment(index) on an instance whose fields are hs, rs, als, rb, re:
\* past the last column it runs insert_markdown_table (view.run_command is
\* synchronous); otherwise it shows the quick panel for column `index`.
ask_alignment(index, hs, rs, als, rb, re, pend, shown, by) ==
    IF index >= Len(hs)
    THEN /\ pending' = pend
         /\ prompts' = shown
         /\ InsertRun(Args(hs, rs, als, rb, re), by)
    ELSE /\ pending' = Append(pend, [index |-> index, stale |-> FALSE])
         /\ prompts' = Append(shown, index)
         /\ UNCHANGED ins_vars

\* GenerateMarkdownTableCommand.run on the selection `raw` that begins at
\* offset b, with csv.Sniffer answering sn.
Run(raw, b, sn) ==
    LET text == strip(raw)
        d    == IF sn # "Error" THEN sn ELSE fallback_delimiter(text)
        data == IF text # <<>> THEN csv_reader(text, d) ELSE <<>>
    IN  /\ selected_text' = text
        /\ sniffed' = IF text # <<>> THEN sn ELSE "None"
        /\ delimiter' = IF text # <<>> THEN d ELSE "None"
        /\ runs' = runs + 1
        /\ call' = call
        /\ index_error' = index_error
        /\ IF text # <<>> /\ data = <<>>
           THEN \* "nothing to do": return before any field is written
                UNCHANGED <<headers, rows, aligns, region_begin, region_end,
                            parsed_rows, pending, prompts, choices, aligns_by,
                            ins_vars>>
           ELSE LET hs  == IF text # <<>> THEN data[1] ELSE DefaultHeaders
                    rs0 == IF text # <<>> THEN Tail(data) ELSE DefaultRows
                    rs  == normalize_rows(hs, rs0)
                    als == [i \in 1..Len(hs) |-> "left"]
                    by  == [i \in 1..Len(hs) |-> "default"]
                IN  /\ headers' = hs
                    /\ parsed_rows' = rs0
                    /\ rows' = rs
                    /\ aligns' = als
                    /\ aligns_by' = by
                    /\ region_begin' = b
                    /\ region_end' = b + Len(raw)
                    /\ choices' = <<>>
                    /\ ask_alignment(0, hs, rs, als, b, b + Len(raw),
                           [k \in 1..Len(pending) |->
                               [pending[k] EXCEPT !.stale = TRUE]],
                           <<>>, by)

RemoveAt(s, k) == SubSeq(s, 1, k - 1) \o SubSeq(s, k + 1, Len(s))

AlignOf(choice) ==
    IF choice = 0 THEN "left" ELSE IF choice = 1 THEN "center" ELSE "right"

\* OnDone with a slip: a cancelled panel is treated as a choice.
OnDone_ignores_cancel(k, choice) ==
    LET cb   == pending[k]
        rest == RemoveAt(pending, k)
        als  == [aligns EXCEPT ![cb.index + 1] = AlignOf(choice)]
        by   == [aligns_by EXCEPT ![cb.index + 1] = "own"]
    IN  /\ cb.index < Len(aligns)
        /\ choices' = Append(choices, choice)
        /\ aligns' = als
        /\ aligns_by' = by
        /\ ask_alignment(cb.index + 1, headers, rows, als,
                         region_begin, region_end, rest, prompts, by)
        /\ UNCHANGED <<headers, rows, region_begin, region_end, selected_text,
                       sniffed, delimiter, parsed_rows, runs, index_error, call>>

\* on_done(choice) of the k-th pending quick panel.
OnDone(k, choice) ==
    LET cb   == pending[k]
        rest == RemoveAt(pending, k)
    IN  /\ choices' = Append(choices, choice)
        /\ UNCHANGED <<headers, rows, region_begin, region_end, selected_text,
                       sniffed, delimiter, parsed_rows, runs, call>>
        /\ IF choice = -1
           THEN \* cancelled by user
                /\ pending' = rest
                /\ UNCHANGED <<aligns, aligns_by, prompts, index_error, ins_vars>>
           ELSE IF cb.index >= Len(aligns)
           THEN \* self.aligns[index] = ... raises IndexError
                /\ index_error' = TRUE
                /\ pending' = rest
                /\ UNCHANGED <<aligns, aligns_by, prompts, ins_vars>>
           ELSE LET als == [aligns EXCEPT ![cb.index + 1] = AlignOf(choice)]
                    by  == [aligns_by EXCEPT ![cb.index + 1] =
                               IF cb.stale THEN "stale" ELSE "own"]
                IN  /\ aligns' = als
                    /\ aligns_by' = by
                    /\ index_error' = index_error
                    /\ ask_alignment(cb.index + 1, headers, rows, als,
                                     region_begin, region_end, rest, prompts, by)

\* ---------------------------------------------------------- specifications

\* Longest selection handed to the generate command.
MaxTextLen == 3
\* Longest selection, and most run() calls, when runs may overlap.
MaxShortLen == 1
MaxRuns == 2

TextChars == {"a", ",", "\t", ";", "|", "\n"}

Texts == SeqUpTo(TextChars, MaxTextLen)

ShortTexts == SeqUpTo(TextChars, MaxShortLen)

\* What show_quick_panel hands to on_done: an option's index, or -1.
Choices == {-1, 0, 1, 2}

\* The cells of a table handed directly to insert_markdown_table: runs of
\* "a", a lone field separator, a lone line break.
Cells == {Rep("a", n) : n \in 0..MaxCellLen} \cup {<<"|">>, <<"\n">>}

\* "justify" stands for any value other than left, center, right.
AlignValues == {"left", "center", "right", "justify"}

\* QuickGenerateTableCommand's example table.
QuickHeaders ==
    << <<"C","o","l","u","m","n"," ","1">>, <<"C","o","l","u","m","n"," ","2">>,
       <<"C","o","l","u","m","n"," ","3">> >>

QuickRows ==
    << << <<"V","a","l","u","e"," ","1">>, <<"V","a","l","u","e"," ","2">>,
          <<"V","a","l","u","e"," ","3">> >> >>

\* The invocations of insert_markdown_table: every small table, and the two
\* example tables of the repository under every choice of alignments.
Calls ==
    {Args(hs, rs, als, 0, re) :
        hs \in SeqUpTo(Cells, MaxCols),
        rs \in SeqUpTo(SeqUpTo(Cells, MaxCols), MaxRows),
        als \in SeqUpTo(AlignValues, MaxCols),
        re \in 0..MaxBegin}
    \cup {Args(DefaultHeaders, DefaultRows, als, 0, 0) :
             als \in [1..Len(DefaultHeaders) -> {"left", "center", "right"}]}
    \cup {Args(QuickHeaders, QuickRows, als, 0, 0) :
             als \in [1..Len(QuickHeaders) -> {"left", "center", "right"}]}

\* The command instances as constructed: no field set, no panel open, the
\* document untouched.
Idle ==
    /\ headers = <<>> /\ rows = <<>> /\ aligns = <<>>
    /\ region_begin = 0 /\ region_end = 0
    /\ selected_text = <<>> /\ sniffed = "None" /\ delimiter = "None"
    /\ parsed_rows = <<>>
    /\ pending = <<>> /\ runs = 0 /\ prompts = <<>> /\ choices = <<>>
    /\ aligns_by = <<>> /\ index_error = FALSE
    /\ ins = NoCall /\ table_lines = <<>> /\ table = <<>> /\ ins_by = <<>>
    /\ edits = <<>>

Init == Idle /\ call = NoCall

SniffsFor(raw) ==
    IF strip(raw) = <<>> THEN {"None"} ELSE SniffOutcomes(sniff_sample(strip(raw)))

\* The generate command is run once on a fresh instance.  (A later run with
\* no panel open overwrites every field it reads, so it behaves the same.)
RunOnce ==
    /\ runs = 0
    /\ \E raw \in Texts, b \in 0..MaxBegin :
           \E sn \in SniffsFor(raw) : Run(raw, b, sn)

\* The user answers or cancels a quick panel.
Answer ==
    \E k \in 1..Len(pending), choice \in Choices : OnDone(k, choice)

Next == RunOnce \/ Answer

Spec == Init /\ [][Next]_vars

\* insert_markdown_table run once with arguments of the caller's choosing.
InitRender == Idle /\ call \in Calls

NextRender == InsertDirect

SpecRender == InitRender /\ [][NextRender]_vars

\* The generate command run again while panels of earlier runs are open.
RunAgain ==
    /\ runs < MaxRuns
    /\ \E raw \in ShortTexts, b \in 0..MaxBegin :
           \E sn \in SniffsFor(raw) : Run(raw, b, sn)

NextReentrant == RunAgain \/ Answer

SpecReentrant == Init /\ [][NextReentrant]_vars

\* ------------------------------------------------------------- properties

\* insert_markdown_table has run: ins holds its arguments, table_lines and
\* table what generate_markdown_table built from them.
Rendered == ins # NoCall

MaxOf(S) == CHOOSE m \in S : \A x \in S : x <= m

\* max(len(headers[i]), max over rows of len(row[i])), a row without a cell
\* i counting as an empty cell.
ClaimWidth(i) ==
    MaxOf({Len(ins.headers[i])}
          \cup {IF i <= Len(ins.rows[k]) THEN Len(ins.rows[k][i]) ELSE 0 :
                   k \in 1..Len(ins.rows)})

ClaimWidths == [i \in 1..Len(ins.headers) |-> ClaimWidth(i)]

ClaimAlign(i) == IF i <= Len(ins.aligns) THEN ins.aligns[i] ELSE "left"

RECURSIVE SumWidths(_, _)
SumWidths(W, n) == IF n = 0 THEN 0 ELSE W[n] + SumWidths(W, n - 1)

\* The offset at which column i's cell begins in a line whose cells have the
\* widths W: after "| " and, per earlier column, its cell and " | ".
Start(W, i) == 2 + SumWidths(W, i - 1) + 3 * (i - 1)

Segment(line, W, i) == SubSeq(line, Start(W, i) + 1, Start(W, i) + W[i])

\* line is "| ", cells of the widths W separated by " | ", then " |".
Framed(line, W) ==
    LET C == Len(W)
    IN  IF C = 0 THEN line = <<"|", " ", " ", "|">>
        ELSE /\ Len(line) = Start(W, C) + W[C] + 2
             /\ SubSeq(line, 1, 2) = <<"|", " ">>
             /\ \A i \in 1..(C - 1) :
                    SubSeq(line, Start(W, i) + W[i] + 1, Start(W, i) + W[i] + 3)
                        = <<" ", "|", " ">>
             /\ SubSeq(line, Len(line) - 1, Len(line)) = <<" ", "|">>

\* The lines of the header row and of the data rows, and the row each shows.
ContentLines == {1} \cup 3..Len(table_lines)

RowOf(k) == IF k = 1 THEN ins.headers ELSE ins.rows[k - 2]

ClaimCell(k, i) == IF i <= Len(RowOf(k)) THEN RowOf(k)[i] ELSE <<>>

AtLeast(n, m) == IF n < m THEN m ELSE n

\* C1 as stated: in the header row and in every data row the cell of column
\* i is max(len(headers[i]), max len(row[i])) wide, and in the alignment row
\* the token of column i is that width clamped to at least 1.
C1_Original ==
    Rendered =>
        /\ \A k \in ContentLines : Framed(table_lines[k], ClaimWidths)
        /\ Framed(table_lines[2],
                  [i \in 1..Len(ins.headers) |-> AtLeast(ClaimWidth(i), 1)])

\* The narrowest token of an alignment: ":" for left, "-:" for right, ":-:"
\* for center.
MinToken(align) ==
    IF align = "right" THEN 2 ELSE IF align = "center" THEN 3 ELSE 1

\* C1 (amended): in the header row and in every data row the cell of column i
\* is max(len(headers[i]), max len(row[i])) wide; in the alignment row the
\* token of column i is that width clamped to at least 1 for left (or any
\* other value), at least 2 for right and at least 3 for center.
C1_Widths ==
    Rendered =>
        /\ \A k \in ContentLines : Framed(table_lines[k], ClaimWidths)
        /\ Framed(table_lines[2],
                  [i \in 1..Len(ins.headers) |->
                      AtLeast(ClaimWidth(i), MinToken(ClaimAlign(i)))])

\* A two-column table with a data row was rendered, its first column
\* right-aligned and one character wide, its second wider than its header.
C1_Witness ==
    /\ Rendered
    /\ Len(ins.headers) = 2 /\ Len(ins.rows) = 1
    /\ ClaimAlign(1) = "right" /\ ClaimWidth(1) = 1
    /\ ClaimWidth(2) > Len(ins.headers[2])

\* The number of fields the "|" characters of a line delimit.
PipeFields(line) == Cardinality({k \in 1..Len(line) : line[k] = "|"}) - 1

\* C2 as stated: for all tables, every rendered line (header row, alignment
\* row, data rows) has len(headers) "|"-delimited fields.
C2_Original ==
    Rendered =>
        \A k \in 1..Len(table_lines) :
            PipeFields(table_lines[k]) = Len(ins.headers)

NoPipeInCells ==
    /\ \A i \in 1..Len(ins.headers) : "|" \notin Range(ins.headers[i])
    /\ \A k \in 1..Len(ins.rows) : \A i \in 1..Len(ins.rows[k]) :
           "|" \notin Range(ins.rows[k][i])

\* C2 (amended): for all tables with at least one column and no "|" in any
\* header or cell, every rendered line has len(headers) "|"-delimited fields.
C2_Fields ==
    (Rendered /\ Len(ins.headers) >= 1 /\ NoPipeInCells) =>
        \A k \in 1..Len(table_lines) :
            PipeFields(table_lines[k]) = Len(ins.headers)

\* A two-column table without "|" in its cells was rendered, with a data row
\* shorter than the headers.
C2_Witness ==
    /\ Rendered /\ NoPipeInCells
    /\ Len(ins.headers) = 2 /\ Len(ins.rows) = 1 /\ Len(ins.rows[1]) = 1

\* The cell of row k in a centered column i is the content with l spaces
\* before it and r after it.
Padded(k, i, l, r) ==
    Segment(table_lines[k], ClaimWidths, i)
        = Rep(" ", l) \o ClaimCell(k, i) \o Rep(" ", r)

Pad(k, i) == ClaimWidth(i) - Len(ClaimCell(k, i))

\* C3 as stated: a centered cell has its padding split as evenly as possible
\* and, when the padding is odd, the extra space on the right.
C3_Original ==
    Rendered =>
        \A k \in ContentLines : \A i \in 1..Len(ins.headers) :
            ClaimAlign(i) = "center" =>
                Padded(k, i, Pad(k, i) \div 2, Pad(k, i) - (Pad(k, i) \div 2))

\* C3 (amended): a centered cell has its padding split as evenly as possible
\* and, when the padding is odd, the extra space on the right if the column
\* width is even and on the left if the column width is odd.
C3_Center ==
    Rendered =>
        \A k \in ContentLines : \A i \in 1..Len(ins.headers) :
            ClaimAlign(i) = "center" =>
                \E l \in 0..Pad(k, i) :
                    LET r == Pad(k, i) - l
                    IN  /\ l - r \in {-1, 0, 1}
                        /\ l > r => ClaimWidth(i) % 2 = 1
                        /\ l < r => ClaimWidth(i) % 2 = 0
                        /\ Padded(k, i, l, r)

\* A centered column was rendered in which a cell of two characters sits in
\* a width of three (odd padding, odd width).
C3_Witness ==
    /\ Rendered
    /\ \E i \in 1..Len(ins.headers) :
           /\ ClaimAlign(i) = "center"
           /\ ClaimWidth(i) = 3
           /\ \E k \in ContentLines : Len(ClaimCell(k, i)) = 2

\* The token C4 describes for an alignment and a computed width.
ClaimToken(align, w0) ==
    LET w == AtLeast(w0, 1)
    IN  CASE align = "right" ->
                 IF w >= 2 THEN Rep("-", w - 1) \o <<":">> ELSE <<"-", ":">>
          [] align = "center" ->
                 IF w <= 2 THEN <<":", "-", ":">>
                 ELSE <<":">> \o Rep("-", w - 2) \o <<":">>
          [] OTHER -> <<":">> \o Rep("-", w - 1)

ClaimTokens ==
    [i \in 1..Len(ins.headers) |-> ClaimToken(ClaimAlign(i), ClaimWidth(i))]

\* C4: the alignment row holds, for every column, the token of its alignment
\* and width: left ":" and w-1 dashes; right w-1 dashes and ":" ("-:" when
\* w = 1); center ":-:" when w <= 2, else ":", w-2 dashes, ":"; w clamped to
\* at least 1; any other alignment value as left.
C4_Tokens ==
    Rendered =>
        LET W == [i \in 1..Len(ins.headers) |-> Len(ClaimTokens[i])]
        IN  /\ Framed(table_lines[2], W)
            /\ \A i \in 1..Len(ins.headers) :
                   Segment(table_lines[2], W, i) = ClaimTokens[i]

\* A table was rendered with a right-aligned column of width 1 and a column of
\* width 3 whose alignment is none of left, center, right.
C4_Witness ==
    /\ Rendered /\ Len(ins.headers) = 2
    /\ ClaimAlign(1) = "right" /\ ClaimWidth(1) = 1
    /\ ClaimAlign(2) = "justify" /\ ClaimWidth(2) = 3

\* The lines C9 expects: the header row, the alignment row, the data rows in
\* input order.
ClaimLines ==
    LET W == compute_col_widths(ins.headers, ins.rows)
    IN  <<format_row(ins.headers, ins.aligns, W)>>
        \o <<(<<"|", " ">>
              \o join(<<" ", "|", " ">>,
                      [i \in 1..Len(W) |-> align_pattern(ClaimAlign(i), W[i])])
              \o <<" ", "|">>)>>
        \o [k \in 1..Len(ins.rows) |-> format_row(ins.rows[k], ins.aligns, W)]

\* The string is exactly 2 + len(rows) lines, each followed by one line
\* break: cut at its line breaks it is those lines, in order, and an empty
\* rest.
TableIsClaimLines ==
    LET pieces == split(table, "\n")
    IN  /\ Len(pieces) = 2 + Len(ins.rows) + 1
        /\ pieces[Len(pieces)] = <<>>
        /\ \A k \in 1..(2 + Len(ins.rows)) : pieces[k] = ClaimLines[k]

\* C9 as stated: the returned string is exactly 2 + len(rows) lines (header
\* row, alignment row, data rows in input order), separated by single line
\* breaks, with one trailing line break.
C9_Original == Rendered => TableIsClaimLines

NoBreakInCells ==
    /\ \A i \in 1..Len(ins.headers) : "\n" \notin Range(ins.headers[i])
    /\ \A k \in 1..Len(ins.rows) : \A i \in 1..Len(ins.rows[k]) :
           "\n" \notin Range(ins.rows[k][i])

\* C9 (amended): when no header or cell contains a line break, the returned
\* string is exactly 2 + len(rows) lines (header row, alignment row, data
\* rows in input order), separated by single line breaks, with one trailing
\* line break; a table without rows gives exactly 2 lines.
C9_Lines == (Rendered /\ NoBreakInCells) => TableIsClaimLines

\* The three-row example table was rendered.
C9_Witness ==
    /\ Rendered /\ NoBreakInCells
    /\ Len(ins.rows) = 3 /\ ins.rows[1] # ins.rows[2] /\ ins.rows[2] # ins.rows[3]

\* run() has parsed a selection or taken the example table, and normalized.
HasRun == runs > 0

\* C5: normalization keeps the number and order of the rows and gives every
\* row exactly len(headers) cells: a shorter row keeps its cells and gets ""
\* on the right, a longer row keeps its first len(headers) cells.
C5_Normalized ==
    HasRun =>
        /\ Len(rows) = Len(parsed_rows)
        /\ \A k \in 1..Len(rows) :
               /\ Len(rows[k]) = Len(headers)
               /\ \A j \in 1..Len(headers) :
                      rows[k][j] = IF j <= Len(parsed_rows[k])
                                   THEN parsed_rows[k][j] ELSE <<>>

\* A selection was parsed into two headers and a data row of one non-empty
\* cell, which normalization padded.
C5_Witness ==
    /\ HasRun /\ Len(headers) = 2 /\ Len(rows) = 1
    /\ Len(parsed_rows[1]) = 1 /\ parsed_rows[1][1] # <<>>
    /\ rows[1] = <<parsed_rows[1][1], <<>> >>

\* C6: normalizing the already-normalized rows against the same headers
\* gives the same rows.
C6_Idempotent == HasRun => normalize_rows(headers, rows) = rows

\* Rows that normalization had to change are the rows of the instance.
C6_Witness ==
    /\ HasRun /\ Len(rows) >= 1 /\ rows # parsed_rows
    /\ \E k \in 1..Len(rows) : Len(parsed_rows[k]) > Len(headers)

NoCancel == \A j \in 1..Len(choices) : choices[j] # -1

AllChosen == Len(choices) = Len(headers) /\ NoCancel

\* C7: the panels are shown one at a time for columns 0, 1, ... in order;
\* insert_markdown_table (the only edit of the document) has run exactly once
\* when a choice other than -1 has been received for every column, with
\* those choices, and not at all before; after a choice of -1 no panel is
\* open or shown any more, the command has not run and the document is
\* unedited.
C7_Flow ==
    HasRun =>
        /\ \A j \in 1..Len(prompts) : prompts[j] = j - 1
        /\ Len(prompts) <= Len(headers)
        /\ Len(pending) <= 1
        /\ Len(prompts) = Len(choices) + Len(pending)
        /\ Len(edits) = (IF AllChosen THEN 1 ELSE 0)
        /\ (ins # NoCall) <=> AllChosen
        /\ AllChosen =>
               /\ pending = <<>>
               /\ ins.headers = headers /\ ins.rows = rows
               /\ ins.region_begin = region_begin /\ ins.region_end = region_end
               /\ Len(ins.aligns) = Len(headers)
               /\ \A i \in 1..Len(headers) :
                      ins.aligns[i] = (CASE choices[i] = 0 -> "left"
                                         [] choices[i] = 1 -> "center"
                                         [] choices[i] = 2 -> "right")
        /\ ~NoCancel =>
               /\ choices[Len(choices)] = -1
               /\ \A j \in 1..(Len(choices) - 1) : choices[j] # -1
               /\ pending = <<>>
               /\ ins = NoCall /\ edits = <<>>

\* A three-column flow was answered to the end, not all choices alike, and the
\* table was inserted.
C7_Witness ==
    /\ HasRun /\ Len(headers) = 3 /\ AllChosen /\ Len(edits) = 1
    /\ choices = <<2, 0, 1>>

\* The first line of the stripped selection.
FirstLine(text) ==
    IF "\n" \in Range(text)
    THEN SubSeq(text, 1,
                (CHOOSE j \in 1..Len(text) :
                     text[j] = "\n" /\ \A m \in 1..(j - 1) : text[m] # "\n") - 1)
    ELSE text

ClaimFallback(line) ==
    CASE "," \in Range(line) -> ","
      [] "\t" \in Range(line) -> "\t"
      [] ";" \in Range(line) -> ";"
      [] "|" \in Range(line) -> "|"
      [] OTHER -> ","

\* C8: for a non-empty selection one delimiter character is always chosen,
\* and it is the one the records were parsed with; when the sniffer fails it
\* is the first of comma, tab, semicolon, pipe that occurs in the first line,
\* and comma when none does.
C8_Delimiter ==
    (HasRun /\ selected_text # <<>>) =>
        /\ delimiter \in TextChars
        /\ headers = split(FirstLine(selected_text), delimiter)
        /\ sniffed = "Error" => delimiter = ClaimFallback(FirstLine(selected_text))

\* The sniffer failed on the selection "|", line break, ",": the pipe of the
\* first line was chosen, not the comma of the second.
C8_Witness ==
    /\ HasRun /\ sniffed = "Error"
    /\ selected_text = <<"|", "\n", ",">>
    /\ delimiter = "|"
    /\ headers = << <<>>, <<>> >>

\* C10 as stated: however runs of the generate command on one instance
\* overlap, every invocation of insert_markdown_table carries as many aligns
\* as headers, each aligns[i] chosen at a panel shown for column i by the run
\* whose headers, rows and region it carries, and no on_done indexes aligns
\* outside 0..len(headers)-1.
C10_Original ==
    /\ ~index_error
    /\ Rendered =>
           /\ Len(ins.aligns) = Len(ins.headers)
           /\ \A i \in 1..Len(ins.aligns) : ins_by[i] = "own"

====
